---- MODULE Spec2Model ----
(***************************************************************************)
(* The request-admission pipeline of server.js: the ordered stack of       *)
(* Express layers every request walks (security headers, CORS origin       *)
(* policy, rate limiters, body parsers, route groups, liveness endpoints,  *)
(* error handler, 404 handler), the multer upload guard and the error      *)
(* translator.                                                             *)
(*                                                                         *)
(* Text (error messages, origins, CORS_ORIGIN) is a sequence of tokens, so *)
(* that String.prototype.includes, split, trim and indexOf are computed.   *)
(* A path is the sequence of its segments, so that mounting is a prefix    *)
(* test on segment boundaries.                                             *)
(***************************************************************************)
EXTENDS Integers, Sequences, FiniteSets, TLC

VARIABLES
    corsOriginEnv,  \* process.env.CORS_ORIGIN: Unset or a text
    nodeEnv,        \* process.env.NODE_ENV: Unset or a text
    universe,       \* name of the set of inputs the clients of this run draw from
    hits,           \* rate-limit bucket table: limiter -> client -> count in the window
    reached,        \* per bucket: requests that came to the limiter in the window
    admits,         \* per bucket: requests the limiter let through in the window
    arrived,        \* number of requests received so far
    req             \* slot -> the request being processed there

vars == <<corsOriginEnv, nodeEnv, universe, hits, reached, admits, arrived, req>>

----------------------------------------------------------------------------
(* Bounds of the model *)

MaxArrivals == 3

----------------------------------------------------------------------------
(* Text helpers *)

Unset == <<"\\unset">>

\* s.includes(pat): pat occurs in s as a contiguous run
Includes(s, pat) ==
    \E i \in 0..(Len(s) - Len(pat)) :
        \A j \in 1..Len(pat) : s[i + j] = pat[j]

\* positions of the separator in s
SepPositions(s, sep) == {i \in 1..Len(s) : s[i] = sep}

\* s.split(sep): the pieces between separators, in order
RECURSIVE Split(_, _)
Split(s, sep) ==
    IF SepPositions(s, sep) = {}
    THEN <<s>>
    ELSE LET p == CHOOSE i \in SepPositions(s, sep) :
                      \A k \in SepPositions(s, sep) : i <= k
         IN  <<SubSeq(s, 1, p - 1)>> \o Split(SubSeq(s, p + 1, Len(s)), sep)

\* s.trim(): leading and trailing blanks removed
RECURSIVE Trim(_)
Trim(s) ==
    IF s = <<>> THEN s
    ELSE IF Head(s) = " " THEN Trim(Tail(s))
    ELSE IF s[Len(s)] = " " THEN Trim(SubSeq(s, 1, Len(s) - 1))
    ELSE s

Range(s) == {s[i] : i \in 1..Len(s)}

IsPrefix(p, s) == Len(p) <= Len(s) /\ SubSeq(s, 1, Len(p)) = p

----------------------------------------------------------------------------
(* Configuration read from the environment *)

LocalOrigin == <<"http://localhost:3000">>
AppOrigin   == <<"https://app.example.com">>
EvilOrigin  == <<"http://evil.example">>
NoOrigin    == <<"\\absent">>      \* the request has no Origin header

DefaultAllowedOrigins == {LocalOrigin}

\* const allowedOrigins = process.env.CORS_ORIGIN ? split(',').map(trim) : [default]
AllowedOriginsOf(env) ==
    IF env = Unset \/ env = <<>>
    THEN DefaultAllowedOrigins
    ELSE {Trim(piece) : piece \in Range(Split(env, ","))}

allowedOrigins == AllowedOriginsOf(corsOriginEnv)

\* the callback without its test for a missing origin
OriginAllowedMembersOnly(origin, allowed) == origin \in allowed

\* the cors origin callback: TRUE for callback(null, true), FALSE for callback(Error)
OriginAllowed(origin, allowed) ==
    IF origin = NoOrigin \/ origin = <<>> THEN TRUE
    ELSE origin \in allowed

CorsErrorMessage == <<"Not", "allowed", "by", "CORS">>

----------------------------------------------------------------------------
(* JavaScript values: errors, and objects sent with res.json *)

Undefined == <<"\\undefined">>

NoError == [kind |-> "none"]

\* new Error(message)
MkError(msg) == [kind |-> "Error", message |-> msg]

\* new multer.MulterError(code): multer derives the message from the code
MkMulterError(code, msg) == [kind |-> "MulterError", code |-> code, message |-> msg]

\* a thrown value that is no Error object (next('oops'), throw {status: 503})
ThrownValue == [kind |-> "value"]

\* error.message
MessageOf(error) == IF "message" \in DOMAIN error THEN error.message ELSE Undefined

\* JS truthiness of a text or undefined
Truthy(v) == v # Undefined /\ v # <<>>

\* JSON.stringify as res.json applies it: members whose value is undefined are dropped
Json(obj) == [k \in {f \in DOMAIN obj : obj[f] # Undefined} |-> obj[k]]

----------------------------------------------------------------------------
(* Upload guard: multer({storage, limits: {fileSize}, fileFilter}) *)

FileSizeLimit == 10 * 1024 * 1024

InvalidFileTypeMessage ==
    <<"Invalid", "file", "type", ".", "Only", ".txt", ",", ".md", ",", ".json", ",",
      "and", ".csv", "files", "are", "allowed", ".">>

FileTooLargeMulterMessage == <<"File", "too", "large">>

allowedTypes == {"text/plain", "text/markdown", "application/json", "text/csv"}

\* the filter with text/csv left out of its list
fileFilterNoCsv(file) ==
    IF file.mimetype \in allowedTypes \ {"text/csv"}
    THEN NoError
    ELSE MkError(InvalidFileTypeMessage)

\* fileFilter: cb(null, true) is NoError, cb(new Error(...)) the error
fileFilter(file) ==
    IF file.mimetype \in allowedTypes
    THEN NoError
    ELSE MkError(InvalidFileTypeMessage)

\* the limit written as 100 MB
fileSizeCheckLax(file) ==
    IF file.size > 100 * 1024 * 1024
    THEN MkMulterError("LIMIT_FILE_SIZE", FileTooLargeMulterMessage)
    ELSE NoError

\* limits.fileSize: multer raises LIMIT_FILE_SIZE when the part read exceeds it
fileSizeCheck(file) ==
    IF file.size > FileSizeLimit
    THEN MkMulterError("LIMIT_FILE_SIZE", FileTooLargeMulterMessage)
    ELSE NoError

\* multer runs fileFilter when the part's headers arrive, before any of its bytes
\* are read; the size limit acts only on a part the filter accepted
upload(file) ==
    IF fileFilter(file) # NoError THEN fileFilter(file) ELSE fileSizeCheck(file)

----------------------------------------------------------------------------
(* Error handling middleware *)

FileTooLargeText ==
    <<"File", "too", "large", ".", "Maximum", "size", "is", "10MB", ".">>
GenericErrorText ==
    <<"An", "unexpected", "error", "occurred", ".", "Please", "try", "again", ".">>
InvalidFileTypePattern == <<"Invalid", "file", "type">>
Development == <<"development">>

IsFileSizeViolation(error) ==
    error.kind = "MulterError" /\ error.code = "LIMIT_FILE_SIZE"

IsInvalidFileType(error) ==
    Truthy(MessageOf(error)) /\ Includes(MessageOf(error), InvalidFileTypePattern)

\* details withheld in production only
DetailsOfUnlessProduction(error, env) ==
    IF env # <<"production">> THEN MessageOf(error) ELSE Undefined

\* details: process.env.NODE_ENV === 'development' ? error.message : undefined
DetailsOf(error, env) == IF env = Development THEN MessageOf(error) ELSE Undefined

\* the message test placed before the size test
TranslateTypeFirst(error, env) ==
    IF IsInvalidFileType(error)
    THEN [status |-> 400, type |-> "json", body |-> Json([error |-> MessageOf(error)])]
    ELSE IF IsFileSizeViolation(error)
    THEN [status |-> 400, type |-> "json", body |-> Json([error |-> FileTooLargeText])]
    ELSE [status |-> 500, type |-> "json",
          body |-> Json([error |-> GenericErrorText, details |-> DetailsOf(error, env)])]

\* a translator that answers with the HTTP status the failure itself carries
\* (body-parser's size error carries 413, its syntax error 400)
TranslateWithOwnStatus(error, env) ==
    IF IsFileSizeViolation(error)
    THEN [status |-> 400, type |-> "json", body |-> Json([error |-> FileTooLargeText])]
    ELSE IF IsInvalidFileType(error)
    THEN [status |-> 400, type |-> "json", body |-> Json([error |-> MessageOf(error)])]
    ELSE [status |-> IF MessageOf(error) = <<"request", "entity", "too", "large">>
                     THEN 413 ELSE 500,
          type |-> "json",
          body |-> Json([error |-> GenericErrorText, details |-> DetailsOf(error, env)])]

\* a translator that sends the failure's own message in every case
TranslateEchoMessage(error, env) ==
    IF IsFileSizeViolation(error) \/ IsInvalidFileType(error)
    THEN [status |-> 400, type |-> "json", body |-> Json([error |-> MessageOf(error)])]
    ELSE [status |-> 500, type |-> "json",
          body |-> Json([error |-> MessageOf(error), details |-> DetailsOf(error, env)])]

\* the classification of lines 99-112, first match wins
Translate(error, env) ==
    IF IsFileSizeViolation(error)
    THEN [status |-> 400, type |-> "json", body |-> Json([error |-> FileTooLargeText])]
    ELSE IF IsInvalidFileType(error)
    THEN [status |-> 400, type |-> "json", body |-> Json([error |-> MessageOf(error)])]
    ELSE [status |-> 500, type |-> "json",
          body |-> Json([error |-> GenericErrorText, details |-> DetailsOf(error, env)])]

NotFoundText == <<"Endpoint", "not", "found">>

----------------------------------------------------------------------------
(* Rate limiters: SecurityMiddleware.createRateLimiters() *)

Limiters == {"general", "upload", "api"}

GeneralMax == 2
UploadMax == 1
ApiMax == 1

MaxCount(limiter) ==
    CASE limiter = "general" -> GeneralMax
      [] limiter = "upload"  -> UploadMax
      [] limiter = "api"     -> ApiMax

RateLimitText == <<"Too", "many", "requests">>

----------------------------------------------------------------------------
(* The layer stack, in registration order (app.use / app.get) *)

Layer(name, handler, mount, arg) ==
    [name |-> name, handler |-> handler, mount |-> mount, arg |-> arg]

SecurityLayers == <<
    Layer("helmet",              "helmet",          <<>>,                         "-"),
    Layer("securityHeaders",     "securityHeaders", <<>>,                         "-") >>

CorsLayers == <<
    Layer("cors",                "cors",            <<>>,                         "-") >>

\* the class limiters registered before the general one
LimiterLayersClassFirst == <<
    Layer("uploadLimiter",       "limiter",         <<"api", "upload">>,          "upload"),
    Layer("apiLimiter",          "limiter",         <<"api", "summarize">>,       "api"),
    Layer("apiLimiter",          "limiter",         <<"api", "pdf">>,             "api"),
    Layer("generalLimiter",      "limiter",         <<"api">>,                    "general") >>

\* the general limiter mounted on every path
LimiterLayersGeneralEverywhere == <<
    Layer("generalLimiter",      "limiter",         <<>>,                         "general"),
    Layer("uploadLimiter",       "limiter",         <<"api", "upload">>,          "upload"),
    Layer("apiLimiter",          "limiter",         <<"api", "summarize">>,       "api"),
    Layer("apiLimiter",          "limiter",         <<"api", "pdf">>,             "api") >>

LimiterLayers == <<
    Layer("generalLimiter",      "limiter",         <<"api">>,                    "general"),
    Layer("uploadLimiter",       "limiter",         <<"api", "upload">>,          "upload"),
    Layer("apiLimiter",          "limiter",         <<"api", "summarize">>,       "api"),
    Layer("apiLimiter",          "limiter",         <<"api", "pdf">>,             "api") >>

ParserLayers == <<
    Layer("json",                "json",            <<>>,                         "-"),
    Layer("urlencoded",          "urlencoded",      <<>>,                         "-") >>

\* the share group mounted on the whole of /api
RouteGroupLayersShareOnApi == <<
    Layer("uploadRoutes",        "routes",          <<"api", "upload">>,          "upload"),
    Layer("summarizeRoutes",     "routes",          <<"api", "summarize">>,       "summarize"),
    Layer("shareRoutes",         "routes",          <<"api">>,                    "share"),
    Layer("pdfRoutes",           "routes",          <<"api", "pdf">>,             "pdf"),
    Layer("templatesRoutes",     "routes",          <<"api", "templates">>,       "templates"),
    Layer("versionHistoryRoutes", "routes",         <<"api", "version-history">>, "version-history"),
    Layer("exportRoutes",        "routes",          <<"api", "export">>,          "export") >>

RouteGroupLayers == <<
    Layer("uploadRoutes",        "routes",          <<"api", "upload">>,          "upload"),
    Layer("summarizeRoutes",     "routes",          <<"api", "summarize">>,       "summarize"),
    Layer("shareRoutes",         "routes",          <<"api", "share">>,           "share"),
    Layer("pdfRoutes",           "routes",          <<"api", "pdf">>,             "pdf"),
    Layer("templatesRoutes",     "routes",          <<"api", "templates">>,       "templates"),
    Layer("versionHistoryRoutes", "routes",         <<"api", "version-history">>, "version-history"),
    Layer("exportRoutes",        "routes",          <<"api", "export">>,          "export") >>

LivenessEndpoints == <<
    Layer("health",              "get",             <<"api", "health">>,          "health"),
    Layer("root",                "get",             <<>>,                         "root") >>

TerminalLayers == <<
    Layer("errorHandler",        "error",           <<>>,                         "-"),
    Layer("notFound",            "notFound",        <<>>,                         "-") >>

\* the route groups registered before the admission stages
StackRoutesFirst ==
    SecurityLayers \o RouteGroupLayers \o CorsLayers \o LimiterLayers \o ParserLayers
        \o LivenessEndpoints \o TerminalLayers

\* the security headers registered after the origin policy
StackCorsFirst ==
    CorsLayers \o SecurityLayers \o LimiterLayers \o ParserLayers
        \o RouteGroupLayers \o LivenessEndpoints \o TerminalLayers

\* the 404 handler registered before the routes
StackNotFoundFirst ==
    SecurityLayers \o CorsLayers \o LimiterLayers \o ParserLayers
        \o SubSeq(TerminalLayers, 2, 2) \o RouteGroupLayers \o LivenessEndpoints
        \o SubSeq(TerminalLayers, 1, 1)

\* the body parsers registered before the limiters
StackParsersFirst ==
    SecurityLayers \o CorsLayers \o ParserLayers \o LimiterLayers
        \o RouteGroupLayers \o LivenessEndpoints \o TerminalLayers

Stack ==
    SecurityLayers \o CorsLayers \o LimiterLayers \o ParserLayers
        \o RouteGroupLayers \o LivenessEndpoints \o TerminalLayers

RouteLayers == {"uploadRoutes", "summarizeRoutes", "shareRoutes", "pdfRoutes",
                "templatesRoutes", "versionHistoryRoutes", "exportRoutes"}
LivenessLayers == {"health", "root"}

\* app.get registered as if it were app.all: the method is not looked at
MatchesAnyMethod(layer, q) ==
    IF layer.handler = "error" THEN q.err # NoError
    ELSE /\ q.err = NoError
         /\ IF layer.handler = "get"
            THEN q.path = layer.mount
            ELSE IsPrefix(layer.mount, q.path)

\* Express's matching of one layer against a request in flight:
\*   a four-argument (error) middleware runs only while an error is pending,
\*   every other layer only while none is;
\*   app.get(path) matches the method GET and the whole path;
\*   app.use(path) matches every method and the path's leading segments.
Matches(layer, q) ==
    IF layer.handler = "error" THEN q.err # NoError
    ELSE /\ q.err = NoError
         /\ IF layer.handler = "get"
            THEN q.method = "GET" /\ q.path = layer.mount
            ELSE IsPrefix(layer.mount, q.path)

\* the next layer Express hands the request to: the first match from q.pos on (0: none)
NextLayer(q) ==
    LET cand == {i \in q.pos..Len(Stack) : Matches(Stack[i], q)}
    IN  IF cand = {} THEN 0 ELSE CHOOSE i \in cand : \A k \in cand : i <= k

----------------------------------------------------------------------------
(* Requests and responses *)

Slots == {1, 2}

BodyLimit == 10 * 1024 * 1024      \* express.json / express.urlencoded limit: '10mb'

NoFile == [mimetype |-> "-", size |-> 0]
Body(kind, size, file) == [kind |-> kind, size |-> size, file |-> file, syntax |-> "ok"]
Malformed(body) == [body EXCEPT !.syntax = "bad"]
Unread == Body("unread", 0, NoFile)
NoBody == Body("none", 0, NoFile)

Sizes == {1, BodyLimit, BodyLimit + 1}
MimeTypes == allowedTypes \cup {"application/pdf", "text/html"}

NoResp == [status |-> 0]

FreeReq == [pc |-> "free"]

NewReq(method, path, origin, client) ==
    [pc |-> "run", method |-> method, path |-> path, origin |-> origin,
     client |-> client, body |-> Unread, file |-> NoFile, pos |-> 1, err |-> NoError,
     headers |-> {}, trace |-> <<>>, log |-> <<>>, resp |-> NoResp]

\* the layer about to run for the request in slot r, and its index
Cur(r) == NextLayer(req[r])
At(r, handler) ==
    /\ req[r].pc = "run"
    /\ Cur(r) # 0
    /\ Stack[Cur(r)].handler = handler

\* the layer ran: it is recorded, and Express resumes after it
Ran(q, i) == [q EXCEPT !.pos = i + 1, !.trace = Append(@, Stack[i].name)]

\* next()
PassOn(q, i) == Ran(q, i)

\* next(err)
Raise(q, i, e) == [Ran(q, i) EXCEPT !.err = e]

\* res.status(..).json(..) / res.send(..) / res.end(): the response leaves with the
\* headers set on res so far
Respond(q, i, status, type, body) ==
    [Ran(q, i) EXCEPT
        !.pc = "done",
        !.log = Append(@, "response"),
        !.resp = [status |-> status, type |-> type, body |-> body,
                  by |-> Stack[i].name, headers |-> q.headers]]

----------------------------------------------------------------------------
(* What the clients and the collaborators of a run do *)

Outcome(type, error) == [type |-> type, error |-> error]

Root == <<>>
AllPaths == {Root, <<"api", "health">>, <<"api", "upload">>, <<"api", "summarize">>,
             <<"api", "share">>, <<"api", "pdf">>, <<"api", "templates">>,
             <<"api", "version-history">>, <<"api", "export">>,
             <<"api", "unknown">>, <<"unknown">>}
\* paths that between them reach every layer of the stack
CorePaths == {Root, <<"api", "health">>, <<"api", "upload">>, <<"api", "share">>,
              <<"api", "unknown">>}

FileBodies ==
    {Body("multipart", n + 200, [mimetype |-> m, size |-> n]) :
         m \in MimeTypes, n \in Sizes}
ParsedBodies ==
    {Body(k, n, NoFile) : k \in {"json", "urlencoded"}, n \in Sizes}
    \cup {Body("text", BodyLimit + 1, NoFile)}
    \cup {Malformed(Body("json", n, NoFile)) : n \in Sizes}

Boom == MkError(<<"boom">>)
CollaboratorErrors ==
    {Boom,
     MkError(<<>>),
     ThrownValue,
     MkError(<<"Upload", "failed", ":", "Invalid", "file", "type">>),
     MkError(<<"invalid", "file", "type">>),
     MkMulterError("LIMIT_FILE_SIZE", FileTooLargeMulterMessage),
     MkMulterError("LIMIT_FILE_SIZE", InvalidFileTypeMessage),
     MkMulterError("LIMIT_UNEXPECTED_FILE", <<"Unexpected", "field">>)}

Responds == Outcome("respond", NoError)
Passes == Outcome("pass", NoError)
Fails(e) == Outcome("error", e)

TwoOrigins == <<" ", AppOrigin[1], " ", ",", EvilOrigin[1]>>
Production == <<"production">>

Clients == {"10.0.0.1", "10.0.0.2"}

\* every method, path and origin; one sample of each kind of body and outcome
WideUniverse ==
    [slots |-> {1}, clients |-> {"10.0.0.1"}, methods |-> {"GET", "POST", "OPTIONS"},
     paths |-> AllPaths, origins |-> {NoOrigin, LocalOrigin, AppOrigin},
     bodies |-> {NoBody, Body("json", BodyLimit + 1, NoFile),
                 Malformed(Body("json", 1, NoFile)),
                 Body("urlencoded", BodyLimit + 1, NoFile),
                 Body("multipart", 201, [mimetype |-> "application/pdf", size |-> 1])},
     outcomes |-> {Responds, Passes, Fails(Boom)},
     maxArrivals |-> MaxArrivals]

\* every file part and every body
UploadUniverse ==
    [slots |-> {1}, clients |-> {"10.0.0.1"}, methods |-> {"GET", "POST"},
     paths |-> CorePaths, origins |-> {NoOrigin, AppOrigin},
     bodies |-> FileBodies \cup ParsedBodies \cup {NoBody},
     outcomes |-> {Responds, Passes, Fails(Boom)},
     maxArrivals |-> MaxArrivals]

\* every failure a collaborator may raise
ErrorUniverse ==
    [slots |-> {1}, clients |-> {"10.0.0.1"}, methods |-> {"GET", "POST"},
     paths |-> CorePaths, origins |-> {NoOrigin, AppOrigin},
     bodies |-> {NoBody, Body("json", BodyLimit + 1, NoFile),
                 Body("multipart", BodyLimit + 201,
                      [mimetype |-> "text/plain", size |-> BodyLimit + 1]),
                 Body("multipart", 201, [mimetype |-> "application/pdf", size |-> 1])},
     outcomes |-> {Responds, Passes} \cup {Fails(e) : e \in CollaboratorErrors},
     maxArrivals |-> MaxArrivals]

\* requests in flight together, from two clients
ConcurrentUniverse ==
    [slots |-> Slots, clients |-> Clients, methods |-> {"GET"},
     paths |-> {Root, <<"api", "upload">>, <<"api", "unknown">>},
     origins |-> {NoOrigin},
     bodies |-> {NoBody},
     outcomes |-> {Responds, Fails(Boom)},
     maxArrivals |-> MaxArrivals]

\* every kind of Origin header, against many values of CORS_ORIGIN
OriginUniverse ==
    [slots |-> {1}, clients |-> {"10.0.0.1"}, methods |-> {"GET", "POST", "OPTIONS"},
     paths |-> {Root, <<"api", "upload">>, <<"api", "unknown">>},
     origins |-> {NoOrigin, <<>>, LocalOrigin, AppOrigin, EvilOrigin},
     bodies |-> {NoBody},
     outcomes |-> {Responds, Passes, Fails(Boom)},
     maxArrivals |-> MaxArrivals]

\* every way a request can end: each terminal stage, each collaborator outcome
TerminalUniverse ==
    [slots |-> {1}, clients |-> {"10.0.0.1"}, methods |-> {"GET", "POST", "OPTIONS"},
     paths |-> {Root, <<"api", "health">>, <<"api", "upload">>, <<"api", "unknown">>},
     origins |-> {NoOrigin, AppOrigin},
     bodies |-> {NoBody, Body("json", BodyLimit + 1, NoFile),
                 Body("multipart", 201, [mimetype |-> "application/pdf", size |-> 1])},
     outcomes |-> {Responds, Passes, Fails(Boom)},
     maxArrivals |-> MaxArrivals]

CorsOriginEnvs ==
    {Unset, <<>>, <<",">>, <<" ">>, TwoOrigins, <<LocalOrigin[1]>>,
     <<AppOrigin[1], ",", LocalOrigin[1]>>, <<EvilOrigin[1], " ", ",">>}

Universes ==
    [wide |-> WideUniverse, upload |-> UploadUniverse, errors |-> ErrorUniverse,
     concurrent |-> ConcurrentUniverse, origin |-> OriginUniverse,
     terminal |-> TerminalUniverse]

\* the inputs of this run
U == Universes[universe]

----------------------------------------------------------------------------
(* Actions *)

\* a client sends a request
Arrive(r) ==
    /\ r \in U.slots
    /\ req[r].pc = "free"
    /\ arrived < U.maxArrivals
    /\ \E method \in U.methods, path \in U.paths,
          origin \in U.origins, client \in U.clients :
           req' = [req EXCEPT ![r] = NewReq(method, path, origin, client)]
    /\ arrived' = arrived + 1
    /\ UNCHANGED <<corsOriginEnv, nodeEnv, universe, hits, reached, admits>>

\* app.use(SecurityMiddleware.configureHelmet())
Helmet(r) ==
    /\ At(r, "helmet")
    /\ req' = [req EXCEPT ![r] =
                 PassOn([req[r] EXCEPT !.headers = @ \cup {"helmet"}], Cur(r))]
    /\ UNCHANGED <<corsOriginEnv, nodeEnv, universe, hits, reached, admits, arrived>>

\* app.use(SecurityMiddleware.createSecurityHeaders())
SecurityHeaders(r) ==
    /\ At(r, "securityHeaders")
    /\ req' = [req EXCEPT ![r] =
                 PassOn([req[r] EXCEPT !.headers = @ \cup {"securityHeaders"}], Cur(r))]
    /\ UNCHANGED <<corsOriginEnv, nodeEnv, universe, hits, reached, admits, arrived>>

\* a cors callback that never calls back for a rejected origin: the request is
\* neither answered nor passed on
CorsStageSilentDrop(q, i) ==
    IF ~OriginAllowed(q.origin, allowedOrigins)
    THEN [Ran(q, i) EXCEPT !.pc = "dropped"]
    ELSE LET h == [q EXCEPT !.headers = @ \cup {"Access-Control-Allow-Credentials"}]
         IN  IF q.method = "OPTIONS"
             THEN Respond(h, i, 204, "empty", <<>>)
             ELSE PassOn(h, i)

\* app.use(cors({origin: callback, credentials: true})): a rejected origin is
\* next(err); an admitted OPTIONS request is a preflight, which cors answers itself
\* with 204; any other admitted request goes on with the CORS headers set
CorsStage(q, i) ==
    IF ~OriginAllowed(q.origin, allowedOrigins)
    THEN Raise(q, i, MkError(CorsErrorMessage))
    ELSE LET h == [q EXCEPT !.headers = @ \cup {"Access-Control-Allow-Credentials"}]
         IN  IF q.method = "OPTIONS"
             THEN Respond(h, i, 204, "empty", <<>>)
             ELSE PassOn(h, i)

Cors(r) ==
    /\ At(r, "cors")
    /\ req' = [req EXCEPT ![r] = CorsStage(req[r], Cur(r))]
    /\ UNCHANGED <<corsOriginEnv, nodeEnv, universe, hits, reached, admits, arrived>>

\* a server-side log entry is written for the request
Logged(q, entry) == [q EXCEPT !.log = Append(@, entry)]

\* a limiter that lets the request at the limit itself through no more
LimiterAdmitsBelow(limiter, count) == count < MaxCount(limiter)

\* one of the limiters: the request is counted in its client's bucket; it goes on
\* while the count is within the limit and is answered 429 otherwise
LimiterAdmits(limiter, count) == count <= MaxCount(limiter)

\* a read-then-write that is not atomic: of two requests counted in the same
\* bucket at the same time, one increment is lost
CountedRacy(l, c) ==
    IF Cardinality({r \in Slots : /\ req[r].pc = "run"
                                  /\ req[r].client = c
                                  /\ NextLayer(req[r]) # 0
                                  /\ Stack[NextLayer(req[r])].handler = "limiter"
                                  /\ Stack[NextLayer(req[r])].arg = l}) > 1
    THEN hits[l][c]
    ELSE hits[l][c] + 1

\* the bucket's count once this request is counted in it
Counted(l, c) == hits[l][c] + 1

RateLimit(r) ==
    /\ At(r, "limiter")
    /\ LET i == Cur(r)
           l == Stack[i].arg
           c == req[r].client
           n == Counted(l, c)
       IN  /\ hits' = [hits EXCEPT ![l][c] = n]
           /\ reached' = [reached EXCEPT ![l][c] = @ + 1]
           /\ IF LimiterAdmits(l, n)
              THEN /\ admits' = [admits EXCEPT ![l][c] = @ + 1]
                   /\ req' = [req EXCEPT ![r] = PassOn(req[r], i)]
              ELSE /\ admits' = admits
                   /\ req' = [req EXCEPT ![r] =
                                Respond(Logged(req[r], "rateLimit.log"), i, 429, "json",
                                        Json([error |-> RateLimitText]))]
    /\ UNCHANGED <<corsOriginEnv, nodeEnv, universe, arrived>>

\* the bucket's window elapses: its counter starts again
WindowElapse(l, c) ==
    /\ hits[l][c] > 0
    /\ hits' = [hits EXCEPT ![l][c] = 0]
    /\ reached' = [reached EXCEPT ![l][c] = 0]
    /\ admits' = [admits EXCEPT ![l][c] = 0]
    /\ UNCHANGED <<corsOriginEnv, nodeEnv, universe, arrived, req>>


EntityTooLargeMessage == <<"request", "entity", "too", "large">>

JsonSyntaxErrorMessage == <<"Unexpected", "token", "in", "JSON">>

\* a parser that refuses a body as soon as it fills the limit
BodyParserBelowLimit(q, i, kind) ==
    IF q.body.kind # kind THEN PassOn(q, i)
    ELSE IF q.body.size >= BodyLimit THEN Raise(q, i, MkError(EntityTooLargeMessage))
    ELSE IF kind = "json" /\ q.body.syntax = "bad"
         THEN Raise(q, i, MkError(JsonSyntaxErrorMessage))
    ELSE PassOn(q, i)

\* express.json / express.urlencoded: a body of the parser's own content type is
\* read up to the limit, a longer one is next(err) (413, entity.too.large); what
\* was read is parsed, and JSON that does not parse is next(err) (400); a body of
\* another type, or no body, is passed on untouched
BodyParser(q, i, kind) ==
    IF q.body.kind # kind THEN PassOn(q, i)
    ELSE IF q.body.size > BodyLimit THEN Raise(q, i, MkError(EntityTooLargeMessage))
    ELSE IF kind = "json" /\ q.body.syntax = "bad"
         THEN Raise(q, i, MkError(JsonSyntaxErrorMessage))
    ELSE PassOn(q, i)

\* the bodies a request may turn out to carry once a parser starts to read it
BodiesOf(q) ==
    IF q.body # Unread THEN {q.body}
    ELSE IF q.method = "POST" THEN U.bodies
    ELSE {NoBody}

\* app.use(express.json({limit: '10mb'}))
JsonParser(r) ==
    /\ At(r, "json")
    /\ \E b \in BodiesOf(req[r]) :
           req' = [req EXCEPT ![r] = BodyParser([req[r] EXCEPT !.body = b], Cur(r), "json")]
    /\ UNCHANGED <<corsOriginEnv, nodeEnv, universe, hits, reached, admits, arrived>>

\* app.use(express.urlencoded({extended: true, limit: '10mb'}))
UrlencodedParser(r) ==
    /\ At(r, "urlencoded")
    /\ \E b \in BodiesOf(req[r]) :
           req' = [req EXCEPT ![r] =
                     BodyParser([req[r] EXCEPT !.body = b], Cur(r), "urlencoded")]
    /\ UNCHANGED <<corsOriginEnv, nodeEnv, universe, hits, reached, admits, arrived>>

\* what a route group's router does with a request: answer it, pass it on
\* (no route of the group matches) or fail
Collaborate(q, i, o) ==
    CASE o.type = "respond" -> Respond(q, i, 200, "json", Json([result |-> <<"ok">>]))
      [] o.type = "pass"    -> PassOn(q, i)
      [] o.type = "error"   -> Raise(q, i, o.error)

\* the upload guard stands before the upload group's handler: a file part it
\* rejects is next(err) and the handler never sees the request
GuardedByUpload(q, i) ==
    /\ Stack[i].arg = "upload"
    /\ q.body.kind = "multipart"
    /\ upload(q.body.file) # NoError

\* a file part the guard accepted is exposed to the handler (req.file)
Attach(q, i) ==
    IF Stack[i].arg = "upload" /\ q.body.kind = "multipart"
    THEN [q EXCEPT !.file = q.body.file]
    ELSE q

\* app.use('/api/<group>', <group>Routes)
RouteGroup(r) ==
    /\ At(r, "routes")
    /\ LET i == Cur(r)
           q == req[r]
       IN  IF GuardedByUpload(q, i)
           THEN req' = [req EXCEPT ![r] = Raise(q, i, upload(q.body.file))]
           ELSE \E o \in U.outcomes :
                    req' = [req EXCEPT ![r] = Collaborate(Attach(q, i), i, o)]
    /\ UNCHANGED <<corsOriginEnv, nodeEnv, universe, hits, reached, admits, arrived>>

Timestamp == <<"toISOString">>

\* app.get('/api/health') and app.get('/')
Liveness(r) ==
    /\ At(r, "get")
    /\ LET i == Cur(r)
       IN  req' = [req EXCEPT ![r] =
                IF Stack[i].arg = "health"
                THEN Respond(req[r], i, 200, "json",
                             Json([status |-> <<"OK">>, timestamp |-> Timestamp]))
                ELSE Respond(req[r], i, 200, "text", <<"API", "is", "running">>)]
    /\ UNCHANGED <<corsOriginEnv, nodeEnv, universe, hits, reached, admits, arrived>>

\* an error handler that answers first and logs afterwards
ErrorStageLogsLast(q, i, env) ==
    LET t == Translate(q.err, env)
    IN  Logged(Respond(q, i, t.status, t.type, t.body), "console.error")

\* app.use((error, req, res, next) => ...): console.error, then the translated response
ErrorStage(q, i, env) ==
    LET t == Translate(q.err, env)
    IN  Respond(Logged(q, "console.error"), i, t.status, t.type, t.body)

ErrorHandler(r) ==
    /\ At(r, "error")
    /\ req' = [req EXCEPT ![r] = ErrorStage(req[r], Cur(r), nodeEnv)]
    /\ UNCHANGED <<corsOriginEnv, nodeEnv, universe, hits, reached, admits, arrived>>

\* app.use((req, res) => res.status(404).json({error: 'Endpoint not found'}))
NotFound(r) ==
    /\ At(r, "notFound")
    /\ req' = [req EXCEPT ![r] =
                 Respond(req[r], Cur(r), 404, "json", Json([error |-> NotFoundText]))]
    /\ UNCHANGED <<corsOriginEnv, nodeEnv, universe, hits, reached, admits, arrived>>

\* the response has been sent: the request context is destroyed
Forget(r) ==
    /\ req[r].pc = "done"
    /\ req' = [req EXCEPT ![r] = FreeReq]
    /\ UNCHANGED <<corsOriginEnv, nodeEnv, universe, hits, reached, admits, arrived>>

----------------------------------------------------------------------------
(* Specifications *)

InitWith(u, corsEnvs, nodeEnvs) ==
    /\ universe = u
    /\ corsOriginEnv \in corsEnvs
    /\ nodeEnv \in nodeEnvs
    /\ hits = [l \in Limiters |-> [c \in Clients |-> 0]]
    /\ reached = [l \in Limiters |-> [c \in Clients |-> 0]]
    /\ admits = [l \in Limiters |-> [c \in Clients |-> 0]]
    /\ arrived = 0
    /\ req = [r \in Slots |-> FreeReq]

Init == InitWith("wide", {Unset, TwoOrigins}, {Unset})
InitUpload == InitWith("upload", {Unset}, {Production})
InitErrors == InitWith("errors", {Unset}, {Unset, Development, Production})
InitConcurrent == InitWith("concurrent", {Unset}, {Production})
InitOrigin == InitWith("origin", CorsOriginEnvs, {Production})

Next ==
    \/ \E r \in Slots : Arrive(r)
    \/ \E r \in Slots : Helmet(r)
    \/ \E r \in Slots : SecurityHeaders(r)
    \/ \E r \in Slots : Cors(r)
    \/ \E r \in Slots : RateLimit(r)
    \/ \E r \in Slots : JsonParser(r)
    \/ \E r \in Slots : UrlencodedParser(r)
    \/ \E r \in Slots : RouteGroup(r)
    \/ \E r \in Slots : Liveness(r)
    \/ \E r \in Slots : ErrorHandler(r)
    \/ \E r \in Slots : NotFound(r)
    \/ \E r \in Slots : Forget(r)
    \/ \E l \in Limiters, c \in Clients : WindowElapse(l, c)

\* one layer runs for the request in slot r
Process(r) ==
    \/ Helmet(r) \/ SecurityHeaders(r) \/ Cors(r) \/ RateLimit(r)
    \/ JsonParser(r) \/ UrlencodedParser(r) \/ RouteGroup(r) \/ Liveness(r)
    \/ ErrorHandler(r) \/ NotFound(r)

\* the event loop runs the next layer of every request in flight: each layer
\* calls next(), next(err) or answers, and a collaborator does one of the three
Fairness == \A r \in Slots : WF_vars(Process(r))

InitTerminal == InitWith("terminal", {Unset}, {Production})

Spec == Init /\ [][Next]_vars
SpecTerminal == InitTerminal /\ [][Next]_vars /\ Fairness
SpecUpload == InitUpload /\ [][Next]_vars
SpecErrors == InitErrors /\ [][Next]_vars
SpecConcurrent == InitConcurrent /\ [][Next]_vars
SpecOrigin == InitOrigin /\ [][Next]_vars

----------------------------------------------------------------------------
(* Properties *)

Active(r) == req[r].pc # "free"
Done(r) == req[r].pc = "done"
Invoked(q) == Range(q.trace) \cap (RouteLayers \cup LivenessLayers)
OriginPresent(q) == q.origin # NoOrigin /\ q.origin # <<>>
OriginRejected(q) == OriginPresent(q) /\ q.origin \notin allowedOrigins
RateRejected(q) == q.resp # NoResp /\ q.resp.status = 429
BodyOversize(q) == q.body.kind \in {"json", "urlencoded"} /\ q.body.size > BodyLimit
BodyMalformed(q) == q.body.kind = "json" /\ q.body.syntax = "bad"
Min(a, b) == IF a <= b THEN a ELSE b

\* C1: a request that an admission guard rejects (its origin is present and not
\* allowed, a limiter answered it 429, or its JSON/form body is over the ceiling)
\* has had no route group and no liveness handler invoked.
C1_RejectedNeverReachesHandler ==
    \A r \in Slots :
        Active(r) /\ (OriginRejected(req[r]) \/ RateRejected(req[r]) \/ BodyOversize(req[r]))
            => Invoked(req[r]) = {}

\* an oversized JSON body sent to the upload group has been answered by the error handler
C1_Witness ==
    \E r \in Slots :
        /\ Done(r)
        /\ req[r].path = <<"api", "upload">>
        /\ req[r].body.kind = "json" /\ req[r].body.size = BodyLimit + 1
        /\ req[r].resp.by = "errorHandler"

\* C2: within one window a limiter lets through exactly the first MaxCount requests
\* of a client and answers every later one 429; once the window has elapsed the
\* count starts again.
C2_FirstMaxCountAdmitted ==
    [][\A r \in Slots :
          At(r, "limiter") /\ req'[r] # req[r] =>
              LET l == Stack[Cur(r)].arg
                  c == req[r].client
              IN  /\ reached'[l][c] = reached[l][c] + 1
                  /\ IF reached[l][c] < MaxCount(l)
                     THEN req'[r].pc = "run" /\ req'[r].err = NoError
                     ELSE req'[r].pc = "done" /\ req'[r].resp.status = 429]_vars

\* a client's upload was answered 429, the window elapsed, and its next upload was
\* let through by the same limiter
C2_Witness ==
    \E r1, r2 \in Slots :
        /\ r1 # r2
        /\ Done(r1) /\ req[r1].resp.by = "uploadLimiter" /\ req[r1].resp.status = 429
        /\ Active(r2) /\ req[r2].client = req[r1].client
        /\ "uploadLimiter" \in Range(req[r2].trace)
        /\ ~RateRejected(req[r2])
        /\ hits["upload"][req[r1].client] = 1

\* C3: however the requests to one bucket interleave, no increment is lost: the
\* bucket's count is the number of requests that came to it in the window, and
\* exactly min(that number, MaxCount) of them were let through.
C3_IncrementsLinearizable ==
    \A l \in Limiters, c \in Clients :
        /\ hits[l][c] = reached[l][c]
        /\ admits[l][c] = Min(reached[l][c], MaxCount(l))

\* two uploads of one client in flight together: one was let through and is still
\* being processed, the other was answered 429
C3_Witness ==
    \E r1, r2 \in Slots :
        /\ r1 # r2
        /\ Active(r1) /\ Active(r2) /\ req[r1].client = req[r2].client
        /\ req[r1].pc = "run" /\ "uploadLimiter" \in Range(req[r1].trace)
        /\ Done(r2)
        /\ req[r2].resp.by = "uploadLimiter" /\ req[r2].resp.status = 429
        /\ reached["upload"][req[r1].client] = 2
        /\ admits["upload"][req[r1].client] = 1

\* C4: every response carries the full set of security headers, whichever stage
\* produced it.
C4_EveryResponseHasSecurityHeaders ==
    \A r \in Slots :
        Active(r) /\ req[r].resp # NoResp =>
            {"helmet", "securityHeaders"} \subseteq req[r].resp.headers

\* an origin rejection has been answered by the error handler, with the headers
C4_Witness ==
    \E r \in Slots :
        /\ Done(r)
        /\ OriginRejected(req[r])
        /\ req[r].resp.by = "errorHandler"
        /\ req[r].resp.status = 500
        /\ {"helmet", "securityHeaders"} \subseteq req[r].resp.headers


UploadGuardRan(q) == "uploadRoutes" \in Range(q.trace) /\ q.body.kind = "multipart"
FourTypes == {"text/plain", "text/markdown", "application/json", "text/csv"}
TenMiB == 10 * 1024 * 1024
InvalidFileTypeCondition(q) ==
    /\ q.err = MkError(InvalidFileTypeMessage)
    /\ q.file = NoFile
    /\ Done(q.slot) =>
          /\ q.resp.status = 400
          /\ q.resp.body = [error |-> InvalidFileTypeMessage]
FileTooLargeCondition(q) ==
    /\ q.err.kind = "MulterError" /\ q.err.code = "LIMIT_FILE_SIZE"
    /\ q.file = NoFile
    /\ Done(q.slot) =>
          /\ q.resp.status = 400
          /\ q.resp.body = [error |-> FileTooLargeText]
InSlot(r) == [slot |-> r] @@ req[r]

\* C5 as stated: every file part over 10 MiB is rejected with FileTooLarge,
\* whatever its declared media type.
C5_OversizeAlwaysFileTooLarge ==
    \A r \in Slots :
        Active(r) /\ UploadGuardRan(req[r]) /\ req[r].body.file.size > TenMiB
            => FileTooLargeCondition(InSlot(r))

\* C5 as amended: a file part over 10 MiB is rejected with FileTooLarge when its
\* declared media type is one of the four allowed, and with InvalidFileType when
\* it is not (the type is tested before any byte of the part is read).
C5_OversizeRejectedTypeFirst ==
    \A r \in Slots :
        Active(r) /\ UploadGuardRan(req[r]) /\ req[r].body.file.size > TenMiB
            => IF req[r].body.file.mimetype \in FourTypes
               THEN FileTooLargeCondition(InSlot(r))
               ELSE InvalidFileTypeCondition(InSlot(r))

\* a text/plain part of 10 MiB + 1 bytes has been answered 400 'File too large'
C5_Witness ==
    \E r \in Slots :
        /\ Done(r) /\ UploadGuardRan(req[r])
        /\ req[r].body.file = [mimetype |-> "text/plain", size |-> TenMiB + 1]
        /\ req[r].resp.status = 400
        /\ req[r].resp.body = [error |-> FileTooLargeText]

\* C6: a file part of at most 10 MiB is accepted exactly when its declared media
\* type is text/plain, text/markdown, application/json or text/csv; any other
\* type is rejected with InvalidFileType, which is not the FileTooLarge condition.
C6_SmallFileAcceptedIffAllowedType ==
    \A r \in Slots :
        Active(r) /\ UploadGuardRan(req[r]) /\ req[r].body.file.size <= TenMiB
            => IF req[r].body.file.mimetype \in FourTypes
               THEN /\ req[r].file = req[r].body.file
                    /\ req[r].err # MkError(InvalidFileTypeMessage)
                    /\ req[r].err.kind # "MulterError"
               ELSE /\ InvalidFileTypeCondition(InSlot(r))
                    /\ req[r].err.kind # "MulterError"
                    /\ Done(r) => req[r].resp.body # [error |-> FileTooLargeText]

\* a text/csv part of exactly 10 MiB reached the upload handler, which answered 200
C6_Witness ==
    \E r \in Slots :
        /\ Done(r) /\ UploadGuardRan(req[r])
        /\ req[r].body.file = [mimetype |-> "text/csv", size |-> TenMiB]
        /\ req[r].file = req[r].body.file
        /\ req[r].resp.by = "uploadRoutes"
        /\ req[r].resp.status = 200

Translated(r) == Done(r) /\ req[r].resp.by = "errorHandler"

\* C7: the error handler answers a failure by the first rule that matches: a
\* multer size violation gets 400 'File too large. Maximum size is 10MB.'; else a
\* message containing 'Invalid file type' gets 400 with that message; else 500
\* with the generic text.
C7_FirstMatchClassification ==
    \A r \in Slots :
        Translated(r) =>
            LET e == req[r].err
                sizeViolation == e.kind = "MulterError" /\ e.code = "LIMIT_FILE_SIZE"
                invalidType == /\ "message" \in DOMAIN e
                               /\ Includes(e.message, <<"Invalid", "file", "type">>)
                resp == req[r].resp
            IN  IF sizeViolation
                THEN resp.status = 400 /\ resp.body = [error |-> FileTooLargeText]
                ELSE IF invalidType
                THEN resp.status = 400 /\ resp.body = [error |-> e.message]
                ELSE resp.status = 500 /\ resp.body.error = GenericErrorText

\* a size violation whose message also contains 'Invalid file type' has been
\* answered with the size rule's text
C7_Witness ==
    \E r \in Slots :
        /\ Translated(r)
        /\ req[r].err = MkMulterError("LIMIT_FILE_SIZE", InvalidFileTypeMessage)
        /\ req[r].resp.status = 400
        /\ req[r].resp.body = [error |-> FileTooLargeText]

Unmatched(q) ==
    /\ ~\E g \in {"upload", "summarize", "share", "pdf", "templates",
                  "version-history", "export"} : IsPrefix(<<"api", g>>, q.path)
    /\ ~(q.method = "GET" /\ q.path \in {<<>>, <<"api", "health">>})
IsNotFoundResponse(resp) ==
    resp.status = 404 /\ resp.type = "json" /\ resp.body = [error |-> NotFoundText]

\* C8 as stated: a request that matches no route group and no liveness endpoint
\* is answered 404 {error: 'Endpoint not found'}, whatever its origin and whatever
\* the limiters' state.
C8_UnmatchedAlways404 ==
    \A r \in Slots :
        Done(r) /\ Unmatched(req[r]) => IsNotFoundResponse(req[r].resp)

\* C8 as amended: such a request is answered 404 {error: 'Endpoint not found'}
\* when it passes the stages before the dispatcher: its origin is absent or
\* allowed, it is not an OPTIONS request (which the CORS stage answers itself), no
\* limiter rejects it and the body parsers accept its body (a JSON/form body
\* within the ceiling, JSON that parses).
C8_UnmatchedAdmitted404 ==
    \A r \in Slots :
        /\ Done(r) /\ Unmatched(req[r])
        /\ ~OriginRejected(req[r]) /\ req[r].method # "OPTIONS"
        /\ ~RateRejected(req[r]) /\ ~BodyOversize(req[r]) /\ ~BodyMalformed(req[r])
        => IsNotFoundResponse(req[r].resp)

\* POST /api/health, which no route matches, has been answered by the 404 handler
C8_Witness ==
    \E r \in Slots :
        /\ Done(r)
        /\ req[r].method = "POST" /\ req[r].path = <<"api", "health">>
        /\ req[r].resp.by = "notFound"
        /\ IsNotFoundResponse(req[r].resp)

Generic(r) == Translated(r) /\ req[r].resp.status = 500

\* C9 as stated: a generic failure's response has the details member, holding the
\* original message, exactly when NODE_ENV is 'development'.
C9_DetailsIffDevelopment ==
    \A r \in Slots :
        Generic(r) =>
            /\ ("details" \in DOMAIN req[r].resp.body) <=> (nodeEnv = <<"development">>)
            /\ "details" \in DOMAIN req[r].resp.body =>
                   req[r].resp.body.details = MessageOf(req[r].err)

\* C9 as amended: it has the details member, holding the original message, exactly
\* when NODE_ENV is 'development' and the failure has a message; it never has it
\* in any other mode, an unset one included.
C9_DetailsIffDevelopmentAndMessage ==
    \A r \in Slots :
        Generic(r) =>
            /\ ("details" \in DOMAIN req[r].resp.body)
                   <=> (nodeEnv = <<"development">> /\ "message" \in DOMAIN req[r].err)
            /\ "details" \in DOMAIN req[r].resp.body =>
                   req[r].resp.body.details = req[r].err.message

\* in development a collaborator's Error('boom') has been answered with details 'boom'
C9_Witness ==
    \E r \in Slots :
        /\ Generic(r)
        /\ nodeEnv = <<"development">>
        /\ req[r].err = MkError(<<"boom">>)
        /\ req[r].resp.body = [error |-> GenericErrorText, details |-> <<"boom">>]

CorsAdmitted(q) ==
    /\ "Access-Control-Allow-Credentials" \in q.headers
    /\ q.err # MkError(CorsErrorMessage)

\* C10: the origin policy admits every request without an origin, whatever the
\* allowed set is, and every request whose origin is in the set.
C10_AbsentOrMemberOriginAdmitted ==
    \A r \in Slots :
        /\ Active(r) /\ "cors" \in Range(req[r].trace)
        /\ (req[r].origin = NoOrigin \/ req[r].origin \in allowedOrigins)
        => CorsAdmitted(req[r])

\* with CORS_ORIGIN=',' (no origin in the set) a request without an origin has
\* passed the origin policy and reached a route group
C10_Witness ==
    \E r \in Slots :
        /\ Active(r)
        /\ corsOriginEnv = <<",">>
        /\ allowedOrigins = {<<>>}
        /\ req[r].origin = NoOrigin
        /\ CorsAdmitted(req[r])
        /\ "uploadRoutes" \in Range(req[r].trace)

\* the layers that ran for the request after the layer called name
After(trace, name) ==
    LET at == {k \in 1..Len(trace) : trace[k] = name}
    IN  IF at = {} THEN <<>>
        ELSE SubSeq(trace, (CHOOSE k \in at : \A j \in at : k <= j) + 1, Len(trace))
Parsed(q) == q.body.kind \in {"json", "urlencoded"} /\ q.body.kind \in Range(q.trace)
Ceiling == 10 * 1024 * 1024
SizeLimitError == MkError(EntityTooLargeMessage)

\* C11: a JSON or form-encoded body of exactly 10 MiB (and any smaller one) that
\* parses is accepted by the body parsers and handed to the stage after them; a
\* body of one byte more (well formed or not) is rejected by its parser with the
\* size-limit error, and after that parser only the error handler runs: no later
\* parser, route group, liveness endpoint or not-found handler sees the request.
C11_CeilingAcceptedOneOverRejected ==
    \A r \in Slots :
        Active(r) /\ Parsed(req[r]) =>
            LET q == req[r]
                later == After(q.trace, q.body.kind)
                downstream == After(q.trace, "urlencoded")
            IN  IF q.body.size > Ceiling
                THEN /\ q.err = SizeLimitError
                     /\ Range(later) \subseteq {"errorHandler"}
                ELSE /\ q.err # SizeLimitError
                     /\ q.body.syntax = "ok" /\ "urlencoded" \in Range(q.trace) =>
                            IF downstream = <<>>
                            THEN q.pc = "run" /\ q.err = NoError
                            ELSE downstream[1] \in RouteLayers \cup LivenessLayers
                                                   \cup {"notFound"}

\* a form-encoded body of exactly 10 MiB was handed to the upload group, which
\* answered it
C11_Witness ==
    \E r \in Slots :
        /\ Done(r)
        /\ req[r].body = Body("urlencoded", Ceiling, NoFile)
        /\ After(req[r].trace, "urlencoded") = <<"uploadRoutes">>
        /\ req[r].resp.status = 200

\* a failure path has ended: an error was raised for the request (origin rejection,
\* body too large, invalid file type, file too large, collaborator failure), a
\* limiter rejected it, or nothing matched it
Failed(r) ==
    /\ Done(r)
    /\ \/ req[r].err # NoError
       \/ req[r].resp.by \in {"generalLimiter", "uploadLimiter", "apiLimiter", "notFound"}
\* a JSON body {error: <non-empty text>, ...}
IsErrorEnvelope(resp) ==
    /\ resp.type = "json"
    /\ "error" \in DOMAIN resp.body
    /\ resp.body.error # Undefined
    /\ Len(resp.body.error) > 0
    /\ DOMAIN resp.body \subseteq {"error", "details"}

\* C12: every failure path ends in a response with a status of 400 or more whose
\* body is JSON of the shape {error: <non-empty text>, details?}; none ends in an
\* empty or non-JSON body.
C12_EveryFailureIsErrorEnvelope ==
    \A r \in Slots :
        Failed(r) => req[r].resp.status >= 400 /\ IsErrorEnvelope(req[r].resp)

\* a collaborator threw a value that is no Error object (it has no message) and
\* the client still got the generic envelope
C12_Witness ==
    \E r \in Slots :
        /\ Failed(r)
        /\ req[r].err = ThrownValue
        /\ req[r].resp.status = 500
        /\ req[r].resp.body = [error |-> GenericErrorText]

LivenessRequest(q) == q.method = "GET" /\ q.path \in {<<>>, <<"api", "health">>}
Responder(q) == IF q.path = <<>> THEN "root" ELSE "health"
\* the step takes the request in slot r one layer further
Steps(r) == req[r].pc = "run" /\ req'[r] # req[r]
\* the request in slot r is counted in its client's general bucket, and is answered
\* 429 without its liveness responder if the bucket was already at its limit
CountedInGeneral(r) ==
    LET c == req[r].client
    IN  /\ Stack[Cur(r)].name = "generalLimiter"
        /\ hits'["general"][c] = hits["general"][c] + 1
        /\ hits["general"][c] >= GeneralMax =>
               /\ req'[r].pc = "done"
               /\ req'[r].resp.status = 429
               /\ Responder(req[r]) \notin Range(req'[r].trace)

\* C13 as stated: GET /api/health and GET / are both in the general rate class:
\* the request is counted in the client's general bucket before its liveness
\* responder runs, and is rejected without the responder once the limit is reached.
C13_BothLivenessEndpointsGeneral ==
    [][\A r \in Slots :
          Steps(r) /\ LivenessRequest(req[r]) =>
              /\ At(r, "get") => "generalLimiter" \in Range(req[r].trace)
              /\ At(r, "limiter") => CountedInGeneral(r)]_vars

\* C13 as amended: GET /api/health is in the general rate class (counted in the
\* client's general bucket before the responder runs, answered 429 without the
\* responder once the bucket is at its limit); GET / is in no rate class: no
\* limiter sees it, no bucket changes for it, and it is answered whatever the
\* general bucket holds.
C13_HealthGeneralRootUnlimited ==
    [][\A r \in Slots :
          Steps(r) /\ LivenessRequest(req[r]) =>
              IF req[r].path = <<"api", "health">>
              THEN /\ At(r, "get") => "generalLimiter" \in Range(req[r].trace)
                   /\ At(r, "limiter") => CountedInGeneral(r)
              ELSE /\ ~At(r, "limiter")
                   /\ hits' = hits
                   /\ At(r, "get") =>
                          /\ Range(req[r].trace) \cap
                                 {"generalLimiter", "uploadLimiter", "apiLimiter"} = {}
                          /\ req'[r].resp.status = 200]_vars

\* the client's third request of the window, GET /api/health, was answered 429 by
\* the general limiter and the health responder did not run
C13_Witness ==
    \E r \in Slots :
        /\ Done(r)
        /\ req[r].method = "GET" /\ req[r].path = <<"api", "health">>
        /\ req[r].resp.by = "generalLimiter" /\ req[r].resp.status = 429
        /\ hits["general"][req[r].client] = GeneralMax + 1
        /\ "health" \notin Range(req[r].trace)

HealthRequest(q) == q.method = "GET" /\ q.path = <<"api", "health">>
\* the request passes the stages before the dispatcher
Admitted(q) ==
    /\ ~OriginRejected(q) /\ q.method # "OPTIONS"
    /\ ~RateRejected(q) /\ ~BodyOversize(q) /\ ~BodyMalformed(q)

\* C14: a GET /api/health that passes the stages before the dispatcher is answered
\* by the health responder with status 200 and a JSON body {status: 'OK',
\* timestamp}; no route group is ever invoked for it, and neither the error
\* handler nor the not-found handler.
C14_HealthAnsweredByLiveness ==
    \A r \in Slots :
        Active(r) /\ HealthRequest(req[r]) /\ Admitted(req[r]) =>
            /\ Range(req[r].trace) \cap (RouteLayers \cup {"root", "errorHandler", "notFound"}) = {}
            /\ req[r].err = NoError
            /\ Done(r) =>
                   /\ req[r].resp.by = "health"
                   /\ req[r].resp.status = 200
                   /\ req[r].resp.type = "json"
                   /\ DOMAIN req[r].resp.body = {"status", "timestamp"}
                   /\ req[r].resp.body.status = <<"OK">>

\* a GET /api/health from an allowed origin went through the general limiter and
\* both parsers and was answered by the health responder
C14_Witness ==
    \E r \in Slots :
        /\ Done(r) /\ HealthRequest(req[r])
        /\ req[r].origin = LocalOrigin
        /\ req[r].trace = <<"helmet", "securityHeaders", "cors", "generalLimiter",
                            "json", "urlencoded", "health">>
        /\ req[r].resp.status = 200
        /\ req[r].resp.body = [status |-> <<"OK">>, timestamp |-> Timestamp]

LimiterNames == {"generalLimiter", "uploadLimiter", "apiLimiter"}
ParserNames == {"json", "urlencoded"}
DispatchNames == RouteLayers \cup LivenessLayers \cup {"notFound"}
\* the stage a layer belongs to, in the order of the control flow
StageOf(name) ==
    CASE name \in {"helmet", "securityHeaders"} -> 1
      [] name = "cors"                           -> 2
      [] name \in LimiterNames                   -> 3
      [] name \in ParserNames                    -> 4
      [] name \in DispatchNames                  -> 5
      [] name = "errorHandler"                   -> 6
StagesRun(q) == {StageOf(n) : n \in Range(q.trace)} \ {6}

\* C15: for every request the stages run in the order security headers, origin
\* policy, rate limiters, body parsers, dispatcher; the origin policy runs for
\* every request that gets further, the general limiter for every request under
\* /api that gets further, both parsers for every request that is dispatched; a
\* request whose origin was rejected has been counted in no bucket, and a request
\* a limiter rejected has had no parser read its body and was not dispatched.
C15_StagesInOrder ==
    \A r \in Slots :
        Active(r) =>
            LET q == req[r]
                t == q.trace
            IN  /\ \A j, k \in 1..Len(t) : j < k => StageOf(t[j]) <= StageOf(t[k])
                /\ \A n \in StagesRun(q) : n > 1 =>
                       /\ {"helmet", "securityHeaders", "cors"} \subseteq Range(t)
                /\ (4 \in StagesRun(q) \/ 5 \in StagesRun(q)) /\ IsPrefix(<<"api">>, q.path)
                       => "generalLimiter" \in Range(t)
                /\ 5 \in StagesRun(q) => ParserNames \subseteq Range(t)
                /\ OriginRejected(q) /\ "cors" \in Range(t) =>
                       /\ StagesRun(q) \subseteq {1, 2}
                       /\ q.body = Unread
                /\ RateRejected(q) =>
                       /\ StagesRun(q) \subseteq {1, 2, 3}
                       /\ q.body = Unread
                       /\ "errorHandler" \notin Range(t)

\* a POST /api/upload let through by the general limiter was answered 429 by the
\* upload limiter, its body unread
C15_Witness ==
    \E r \in Slots :
        /\ Done(r) /\ RateRejected(req[r])
        /\ req[r].method = "POST"
        /\ req[r].trace = <<"helmet", "securityHeaders", "cors",
                            "generalLimiter", "uploadLimiter">>
        /\ req[r].body = Unread

AnsweredByNotFound(r) == Done(r) /\ req[r].resp.by = "notFound"
\* the route groups whose mount path the request's path is under
GroupsOver(q) ==
    {RouteGroupLayers[k].name : k \in {j \in 1..Len(RouteGroupLayers) :
                                          IsPrefix(RouteGroupLayers[j].mount, q.path)}}

\* C16 as stated: the not-found responder answers only requests that no route
\* group and no liveness endpoint matched and for which no error was raised.
C16_NotFoundOnlyForUnmatched ==
    \A r \in Slots :
        AnsweredByNotFound(r) => Unmatched(req[r]) /\ req[r].err = NoError

\* C16 as amended: the not-found responder is the last layer of the stack and the
\* last to run for a request; it answers only requests for which no error was
\* raised and which nothing before it answered: a request that matches no
\* liveness endpoint, and whose route group, if its path is under one, was given
\* the request and passed it on. It never runs for a request that a route group,
\* a liveness endpoint, a limiter or the error handler answered.
C16_NotFoundOnlyForUnanswered ==
    \A r \in Slots :
        Active(r) /\ "notFound" \in Range(req[r].trace) =>
            LET q == req[r]
            IN  /\ AnsweredByNotFound(r)
                /\ q.trace[Len(q.trace)] = "notFound"
                /\ q.pos = Len(Stack) + 1
                /\ IsNotFoundResponse(q.resp)
                /\ q.err = NoError /\ "errorHandler" \notin Range(q.trace)
                /\ ~LivenessRequest(q)
                /\ Range(q.trace) \cap LivenessLayers = {}
                /\ Range(q.trace) \cap RouteLayers = GroupsOver(q)

\* a GET /api/share that the share group passed on was answered by the 404 handler
C16_Witness ==
    \E r \in Slots :
        /\ AnsweredByNotFound(r)
        /\ req[r].method = "GET" /\ req[r].path = <<"api", "share">>
        /\ After(req[r].trace, "urlencoded") = <<"shareRoutes", "notFound">>
        /\ req[r].resp.status = 404

LogEntries == {"console.error", "rateLimit.log"}
\* a log entry was written for the request, and before its response was sent
LoggedBeforeResponse(q) ==
    \E j, k \in 1..Len(q.log) : j < k /\ q.log[j] \in LogEntries /\ q.log[k] = "response"

\* C17 as stated: every failure is logged server-side before its response is
\* sent, rate-limit rejections and route-not-found included.
C17_EveryFailureLogged ==
    \A r \in Slots : Failed(r) => LoggedBeforeResponse(req[r])

\* C17 as amended: every failure the error handler answers is logged with
\* console.error before the response is sent, and so is a rate-limit rejection;
\* a request answered by the not-found handler leaves no log entry at all.
C17_FailuresLoggedExceptNotFound ==
    \A r \in Slots :
        Failed(r) =>
            CASE req[r].resp.by = "errorHandler" ->
                     req[r].log = <<"console.error", "response">>
              [] req[r].resp.by = "notFound" ->
                     req[r].log = <<"response">>
              [] OTHER ->
                     RateRejected(req[r]) /\ LoggedBeforeResponse(req[r])

\* a collaborator's failure was logged with console.error and then answered 500
C17_Witness ==
    \E r \in Slots :
        /\ Failed(r)
        /\ req[r].err = Boom
        /\ req[r].resp.by = "errorHandler" /\ req[r].resp.status = 500
        /\ req[r].log = <<"console.error", "response">>

\* the class-specific limiter of a request, "none" for the other classes
ClassOf(q) ==
    IF IsPrefix(<<"api", "upload">>, q.path) THEN "upload"
    ELSE IF IsPrefix(<<"api", "summarize">>, q.path) \/ IsPrefix(<<"api", "pdf">>, q.path)
         THEN "api"
    ELSE "none"
LimiterName(l) == l \o "Limiter"
\* the limiter about to run counts the request in its own bucket alone, and
\* rejects it exactly when that bucket is already at its limit
ChecksOwnBucket(r) ==
    LET l == Stack[Cur(r)].arg
        c == req[r].client
    IN  /\ hits' = [hits EXCEPT ![l][c] = @ + 1]
        /\ req'[r].pc = "done" <=> hits[l][c] >= MaxCount(l)
        /\ req'[r].pc = "done" =>
               req'[r].resp.status = 429 /\ req'[r].resp.by = LimiterName(l)

\* C18: a request under /api/upload, /api/summarize or /api/pdf meets the general
\* limiter and then the limiter of its class; each counts it in its own bucket
\* and rejects it by that bucket alone, so the general limiter rejects it whatever
\* the class bucket holds, and the class limiter sees it only after the general
\* bucket was charged; its route group runs only after both let it through. A
\* request of another class meets no limiter but the general one and leaves the
\* upload and heavy-api buckets untouched.
C18_GeneralThenClassLimiter ==
    [][\A r \in Slots :
          Steps(r) =>
              LET q == req[r]
                  cl == ClassOf(q)
              IN  IF cl # "none"
                  THEN /\ At(r, "limiter") =>
                              /\ Stack[Cur(r)].arg \in {"general", cl}
                              /\ Stack[Cur(r)].arg = cl =>
                                     q.trace[Len(q.trace)] = "generalLimiter"
                              /\ ChecksOwnBucket(r)
                       /\ At(r, "json") => q.trace[Len(q.trace)] = LimiterName(cl)
                       /\ At(r, "routes") =>
                              {"generalLimiter", LimiterName(cl)} \subseteq Range(q.trace)
                  ELSE /\ At(r, "limiter") =>
                              Stack[Cur(r)].arg = "general" /\ ChecksOwnBucket(r)
                       /\ hits'["upload"] = hits["upload"]
                       /\ hits'["api"] = hits["api"]]_vars

\* the client's third request of the window, a POST /api/upload, was rejected by
\* the general limiter while the upload bucket was empty
C18_Witness ==
    \E r \in Slots :
        /\ Done(r)
        /\ req[r].path = <<"api", "upload">>
        /\ req[r].resp.by = "generalLimiter" /\ req[r].resp.status = 429
        /\ hits["general"][req[r].client] = GeneralMax + 1
        /\ hits["upload"][req[r].client] = 0
        /\ "uploadLimiter" \notin Range(req[r].trace)

IsGenericResponse(resp) ==
    /\ resp.by = "errorHandler"
    /\ resp.status = 500
    /\ resp.type = "json"
    /\ resp.body.error = GenericErrorText

\* C19: a request whose origin was rejected and a request whose JSON/form body
\* is over the ceiling are each answered by the error handler with status 500
\* and the generic text (neither the size rule nor the 'Invalid file type' rule
\* matches their errors); every response of the error handler has status 400 or
\* 500.
C19_OriginAndBodyErrorsAre500 ==
    \A r \in Slots :
        /\ Translated(r) => req[r].resp.status \in {400, 500}
        /\ Done(r) /\ OriginRejected(req[r]) =>
               /\ req[r].err = MkError(CorsErrorMessage)
               /\ IsGenericResponse(req[r].resp)
        /\ Done(r) /\ BodyOversize(req[r]) =>
               /\ req[r].err = SizeLimitError
               /\ IsGenericResponse(req[r].resp)

\* in development an oversized JSON body was answered 500 with the generic text,
\* the parser's message in details
C19_Witness ==
    \E r \in Slots :
        /\ Translated(r)
        /\ nodeEnv = Development
        /\ req[r].body = Body("json", Ceiling + 1, NoFile)
        /\ req[r].resp.status = 500
        /\ req[r].resp.body = [error |-> GenericErrorText, details |-> EntityTooLargeMessage]

Responses(q) == Cardinality({k \in 1..Len(q.log) : q.log[k] = "response"})
ListedTerminalStages ==
    LimiterNames \cup RouteLayers \cup LivenessLayers \cup {"errorHandler", "notFound"}
\* no response while the request is being processed, one once it is done, and a
\* request that was answered is touched no more
ExactlyOneResponse(r) ==
    /\ req[r].pc = "run" => req[r].resp = NoResp /\ Responses(req[r]) = 0
    /\ Done(r) => /\ req[r].resp # NoResp
                  /\ Responses(req[r]) = 1
                  /\ req[r].resp.by = req[r].trace[Len(req[r].trace)]

\* C20 as stated: every request is answered exactly once, and by one of the
\* terminal stages rate-limit rejection, collaborator, liveness responder, error
\* handler, not-found handler.
C20_OneResponseFromListedStage ==
    \A r \in Slots :
        /\ Active(r) => ExactlyOneResponse(r)
        /\ Done(r) => req[r].resp.by \in ListedTerminalStages

\* C20 as amended: every request in flight is eventually answered; it is answered
\* exactly once, by a limiter's rejection, a collaborator, a liveness responder,
\* the error handler, the not-found handler, or by the origin policy stage, which
\* answers an admitted OPTIONS request itself; once answered it is not touched
\* again.
C20_EventuallyExactlyOneResponse ==
    /\ \A r \in Slots : (req[r].pc = "run") ~> Done(r)
    /\ [](\A r \in Slots :
             /\ Active(r) => ExactlyOneResponse(r)
             /\ Done(r) => req[r].resp.by \in ListedTerminalStages \cup {"cors"}
             /\ Done(r) /\ req[r].resp.by = "cors" =>
                    /\ req[r].method = "OPTIONS" /\ ~OriginRejected(req[r])
                    /\ req[r].resp.status = 204)
    /\ [][\A r \in Slots : Done(r) /\ req'[r] # req[r] => req'[r] = FreeReq]_vars

\* an OPTIONS request without an origin was answered 204 by the origin policy
\* stage, once, and by nothing after it
C20_Witness ==
    \E r \in Slots :
        /\ Done(r)
        /\ req[r].method = "OPTIONS" /\ req[r].origin = NoOrigin
        /\ req[r].resp.by = "cors" /\ req[r].resp.status = 204
        /\ req[r].trace = <<"helmet", "securityHeaders", "cors">>
        /\ Responses(req[r]) = 1

====
